---- MODULE Spec2Model ----
(***************************************************************************)
(* Model of the Instagram-archive to Bluesky importer: the per-post media  *)
(* selection and text/date segmentation (media.ts: processMedia and        *)
(* processPost), the image constraint enforcer (image.ts) and the publish  *)
(* orchestrator (index.ts: main and processVideoPost).                     *)
(*                                                                         *)
(* JavaScript values are modelled as follows.  An optional value           *)
(* (undefined / null / absent) is a sequence of length 0 or 1: None or     *)
(* Some(x).  A string is a sequence of one-character strings.  A Date is a *)
(* record [valid, ms]; new Date(NaN) is InvalidDate, which is truthy.  A   *)
(* Buffer is a record [file, len, resized].                                *)
(***************************************************************************)
EXTENDS Integers, Sequences, FiniteSets

\* ------------------------------------------------------------------------
\* Bounds of the model
\* ------------------------------------------------------------------------

\* Longest media list of a post given to processPost on its own.
MaxMedia == 6

\* Longest archive (number of posts) the orchestrator is run on.
MaxPosts == 3

\* Largest media total the time estimate is computed for on its own.
MaxImportedMedia == 1200

\* ------------------------------------------------------------------------
\* Program constants
\* ------------------------------------------------------------------------

MAX_IMAGES_PER_POST == 4
POST_TEXT_LIMIT == 300
POST_TEXT_TRUNCATE_SUFFIX == <<".", ".", ".">>
MEDIA_TEXT_LIMIT == 100
API_LIMIT_IMAGE_UPLOAD_SIZE == 976000
API_RATE_LIMIT_DELAY == 3000
VIDEO_MAX_SIZE == 100 * 1024 * 1024

\* ------------------------------------------------------------------------
\* JavaScript values
\* ------------------------------------------------------------------------

None == <<>>
Some(x) == <<x>>
IsSome(o) == Len(o) = 1
Val(o) == o[1]

\* The string of n characters whose i-th character depends on i.
Alphabet == <<"a", "b", "c", "d", "e", "f", "g">>
Str(n) == [i \in 1..n |-> Alphabet[(i % 7) + 1]]

\* s.substring(0, n)
Substring0(s, n) == SubSeq(s, 1, IF n < Len(s) THEN n ELSE Len(s))

\* s ends with the ellipsis marker
EndsWithEllipsis(s) ==
  /\ Len(s) >= 3
  /\ SubSeq(s, Len(s) - 2, Len(s)) = POST_TEXT_TRUNCATE_SUFFIX

\* new Date(ts * 1000) for an optional epoch-seconds timestamp
InvalidDate == [valid |-> FALSE, ms |-> 0]
NewDate(ts) == IF IsSome(ts) THEN [valid |-> TRUE, ms |-> Val(ts) * 1000] ELSE InvalidDate

\* a < b and a > b on Dates: false as soon as one side is NaN
DateLT(a, b) == a.valid /\ b.valid /\ a.ms < b.ms
DateGT(a, b) == a.valid /\ b.valid /\ a.ms > b.ms

\* ------------------------------------------------------------------------
\* Media classifier
\* ------------------------------------------------------------------------

ToLowerCase(ext) ==
  CASE ext = "JPG" -> "jpg"
    [] ext = "MP4" -> "mp4"
    [] ext = "MOV" -> "mov"
    [] ext = "PNG" -> "png"
    [] OTHER -> ext

getImageMimeType(fileType) ==
  LET t == ToLowerCase(fileType) IN
  CASE t = "jpg" -> "image/jpeg"
    [] t = "jpeg" -> "image/jpeg"
    [] t = "png" -> "image/png"
    [] t = "webp" -> "image/webp"
    [] t = "heic" -> "image/heic"
    [] OTHER -> ""

getVideoMimeType(fileType) ==
  LET t == ToLowerCase(fileType) IN
  CASE t = "mp4" -> "video/mp4"
    [] t = "mov" -> "video/quicktime"
    [] OTHER -> ""

isVideoMimeType(mimeType) == mimeType \in {"video/mp4", "video/quicktime"}

getMimeType(fileType) ==
  LET imageMimeType == getImageMimeType(fileType) IN
  IF imageMimeType # "" THEN imageMimeType
  ELSE getVideoMimeType(fileType)

\* ------------------------------------------------------------------------
\* Size constraints
\* ------------------------------------------------------------------------

isImageTooLarge(buffer) == buffer.len > API_LIMIT_IMAGE_UPLOAD_SIZE

validateVideo(buffer) == buffer.len <= VIDEO_MAX_SIZE

\* processImageBufferRun re-encoding a buffer of exactly the limit
processImageBufferRun_strictLimit(mediaBuffer, sharp) ==
  LET ret(v, m, r) == [thrown |-> FALSE, value |-> v, metadataCalls |-> m,
                       resizePasses |-> r]
  IN
  IF mediaBuffer.len < API_LIMIT_IMAGE_UPLOAD_SIZE THEN ret(Some(mediaBuffer), 0, 0)
  ELSE IF sharp.kind \in {"metaThrows", "noDims"} THEN ret(None, 1, 0)
  ELSE IF sharp.kind = "resizeThrows" THEN ret(None, 1, 1)
  ELSE IF sharp.kind = "remetaThrows" THEN ret(None, 2, 1)
  ELSE IF sharp.outLen > API_LIMIT_IMAGE_UPLOAD_SIZE THEN ret(None, 2, 1)
  ELSE ret(Some([mediaBuffer EXCEPT !.len = sharp.outLen, !.resized = TRUE]), 2, 1)

\* processImageBufferRun returning the re-encoded buffer whatever its length
processImageBufferRun_noSizeTest(mediaBuffer, sharp) ==
  LET ret(v, m, r) == [thrown |-> FALSE, value |-> v, metadataCalls |-> m,
                       resizePasses |-> r]
  IN
  IF mediaBuffer.len <= API_LIMIT_IMAGE_UPLOAD_SIZE THEN ret(Some(mediaBuffer), 0, 0)
  ELSE IF sharp.kind \in {"metaThrows", "noDims"} THEN ret(None, 1, 0)
  ELSE IF sharp.kind = "resizeThrows" THEN ret(None, 1, 1)
  ELSE IF sharp.kind = "remetaThrows" THEN ret(None, 2, 1)
  ELSE ret(Some([mediaBuffer EXCEPT !.len = sharp.outLen, !.resized = TRUE]), 2, 1)

\* What sharp does with the bytes of a file, a property of the file:
\*   kind = "metaThrows"   metadata() rejects (not an image)
\*   kind = "noDims"       metadata() has no width or height
\*   kind = "resizeThrows" resize().toBuffer() rejects
\*   kind = "ok"           the re-encoded buffer has outLen bytes
\*   kind = "remetaThrows" metadata() of the re-encoded buffer rejects
\* One call of processImageBuffer: value is what the promise resolves to (None
\* is null), thrown whether it rejects, metadataCalls and resizePasses count the
\* sharp operations started on the way.
processImageBufferRun(mediaBuffer, sharp) ==
  LET ret(v, m, r) == [thrown |-> FALSE, value |-> v, metadataCalls |-> m,
                       resizePasses |-> r]
  IN
  IF mediaBuffer.len <= API_LIMIT_IMAGE_UPLOAD_SIZE THEN ret(Some(mediaBuffer), 0, 0)
  ELSE IF sharp.kind = "metaThrows" THEN ret(None, 1, 0)
  ELSE IF sharp.kind = "noDims" THEN ret(None, 1, 0)
  ELSE IF sharp.kind = "resizeThrows" THEN ret(None, 1, 1)
  ELSE IF sharp.kind = "remetaThrows" THEN ret(None, 2, 1)
  ELSE IF sharp.outLen > API_LIMIT_IMAGE_UPLOAD_SIZE THEN ret(None, 2, 1)
  ELSE ret(Some([mediaBuffer EXCEPT !.len = sharp.outLen, !.resized = TRUE]), 2, 1)

processImageBuffer(mediaBuffer, sharp) == processImageBufferRun(mediaBuffer, sharp).value

\* ------------------------------------------------------------------------
\* processMedia
\* ------------------------------------------------------------------------

\* FS.readFileSync(mediaFilename): the file's bytes, or None when it throws
readFileSync(media) ==
  IF media.file.readable
  THEN Some([file |-> media.uri, len |-> media.file.len, resized |-> FALSE])
  ELSE None

\* "\nPhoto taken at these geographical coordinates: geo:"
GeoPrefix ==
  <<"\n", "P", "h", "o", "t", "o", " ", "t", "a", "k", "e", "n", " ", "a", "t", " ",
    "t", "h", "e", "s", "e", " ", "g", "e", "o", "g", "r", "a", "p", "h", "i", "c",
    "a", "l", " ", "c", "o", "o", "r", "d", "i", "n", "a", "t", "e", "s", ":", " ",
    "g", "e", "o", ":">>

\* String(n) for an integer of at most two digits
Digit(d) == <<"0", "1", "2", "3", "4", "5", "6", "7", "8", "9">>[d + 1]
NatToString(n) == IF n < 10 THEN <<Digit(n)>> ELSE <<Digit(n \div 10), Digit(n % 10)>>
NumberToString(n) == IF n < 0 THEN <<"-">> \o NatToString(0 - n) ELSE NatToString(n)

\* media.title ?? "", plus the geo suffix when the first EXIF latitude is > 0
rawMediaText(media) ==
  LET title == IF IsSome(media.title) THEN Val(media.title) ELSE <<>> IN
  IF IsSome(media.exif) /\ Val(media.exif).latitude > 0
  THEN title \o GeoPrefix \o NumberToString(Val(media.exif).latitude) \o <<",">>
             \o NumberToString(Val(media.exif).longitude)
  ELSE title

truncateMediaText(mediaText) ==
  IF Len(mediaText) > MEDIA_TEXT_LIMIT
  THEN Substring0(mediaText, MEDIA_TEXT_LIMIT) \o POST_TEXT_TRUNCATE_SUFFIX
  ELSE mediaText

MediaFailed ==
  [thrown |-> FALSE, mediaText |-> <<>>, mimeType |-> None, mediaBuffer |-> None,
   isVideo |-> FALSE]

MediaThrown == [MediaFailed EXCEPT !.thrown = TRUE]

\* The result record of processMedia; thrown = TRUE when the call rejects
\* (mediaDate.toISOString() on an Invalid Date raises a RangeError).
processMedia(media) ==
  LET fileType == media.uri.ext
      mimeType == getMimeType(fileType)
      read == readFileSync(media)
  IN
  IF read = None THEN MediaFailed
  ELSE
    LET processed ==
          IF isImageTooLarge(Val(read)) /\ mimeType # ""
          THEN processImageBuffer(Val(read), media.file.sharp)
          ELSE read
    IN
    IF processed = None THEN MediaFailed
    ELSE IF ~NewDate(media.creation_timestamp).valid THEN MediaThrown
    ELSE [thrown |-> FALSE,
          mediaText |-> truncateMediaText(rawMediaText(media)),
          mimeType |-> Some(mimeType),
          mediaBuffer |-> processed,
          isVideo |-> isVideoMimeType(mimeType)]

\* !mimeType: null or the empty string
NoMimeType(mimeType) == mimeType = None \/ mimeType = Some("")

\* ------------------------------------------------------------------------
\* processPost
\* ------------------------------------------------------------------------

ImageEmbedImpl(mediaText, mediaBuffer, mimeType) ==
  [alt |-> mediaText, image |-> mediaBuffer, mimeType |-> mimeType]

VideoEmbedImpl(mediaText, mediaBuffer, mimeType) ==
  [alt |-> mediaText, buffer |-> mediaBuffer, mimeType |-> mimeType, ref |-> None]

\* embeddedMedia is an array of image embeds or one video embed object
ImageList(items) == [isArray |-> TRUE, items |-> items, video |-> None]
VideoObject(v) == [isArray |-> FALSE, items |-> <<>>, video |-> Some(v)]

\* postText after the length check on the post's own title
truncatePostText(postText) ==
  IF Len(postText) > POST_TEXT_LIMIT
  THEN Substring0(postText, POST_TEXT_LIMIT - Len(POST_TEXT_TRUNCATE_SUFFIX))
         \o POST_TEXT_TRUNCATE_SUFFIX
  ELSE postText

\* postText = postText || post.media[0].title, taken when the post has
\* exactly one media item; None is undefined
singleMediaText(postText, media) ==
  IF Len(media) = 1 /\ postText = <<>> THEN media[1].title ELSE Some(postText)

\* postDate = post.creation_timestamp ? new Date(...) : undefined, then
\* postDate || new Date(post.media[0].creation_timestamp * 1000) when the
\* post has exactly one media item
resolvePostDate(post) ==
  IF IsSome(post.creation_timestamp) THEN Some(NewDate(post.creation_timestamp))
  ELSE IF Len(post.media) = 1 THEN Some(NewDate(post.media[1].creation_timestamp))
  ELSE None

\* capReached letting a fifth image through
capReached_offByOne(j) == j > MAX_IMAGES_PER_POST

\* j >= MAX_IMAGES_PER_POST, j counted from 0
capReached(j) == j >= MAX_IMAGES_PER_POST

\* skipMedia letting a video into the image list
skipMedia_keepsVideo(r) == NoMimeType(r.mimeType) \/ r.mediaBuffer = None

\* the test that keeps a processed media item out of the image list
skipMedia(r) == NoMimeType(r.mimeType) \/ r.mediaBuffer = None \/ r.isVideo

\* the image loop from index j (counted from 0) on; acc collects the list
RECURSIVE imageLoop(_, _, _)
imageLoop(media, j, acc) ==
  IF j >= Len(media) THEN acc
  ELSE IF capReached(j) THEN [acc EXCEPT !.capWarned = TRUE]
  ELSE
    LET r == processMedia(media[j + 1]) IN
    IF r.thrown THEN [acc EXCEPT !.thrown = TRUE]
    ELSE IF skipMedia(r) THEN imageLoop(media, j + 1, acc)
    ELSE imageLoop(media, j + 1,
           [acc EXCEPT !.items = Append(@, ImageEmbedImpl(r.mediaText, Val(r.mediaBuffer),
                                                          Val(r.mimeType))),
                       !.mediaCount = @ + 1])

\* the branch taken when the first processed media item is a video
firstIsVideo(firstMedia) == firstMedia.isVideo

\* The ProcessedPost record; thrown = TRUE when the promise rejects.
\* postText is None when the returned text is undefined.
processPost(post) ==
  LET postDate == resolvePostDate(post)
      postText == truncatePostText(IF IsSome(post.title) THEN Val(post.title) ELSE <<>>)
      base == [thrown |-> FALSE, postDate |-> postDate, postText |-> Some(postText),
               embeddedMedia |-> ImageList(<<>>), mediaCount |-> 0, capWarned |-> FALSE]
  IN
  IF Len(post.media) = 0 THEN base
  ELSE
    LET text == singleMediaText(postText, post.media)
        firstMedia == processMedia(post.media[1])
    IN
    IF firstMedia.thrown THEN [base EXCEPT !.thrown = TRUE]
    ELSE IF firstIsVideo(firstMedia) THEN
      IF /\ ~NoMimeType(firstMedia.mimeType)
         /\ firstMedia.mediaBuffer # None
         /\ validateVideo(Val(firstMedia.mediaBuffer))
      THEN [base EXCEPT !.postText = text,
                        !.embeddedMedia =
                           VideoObject(VideoEmbedImpl(firstMedia.mediaText,
                                                      Val(firstMedia.mediaBuffer),
                                                      Val(firstMedia.mimeType))),
                        !.mediaCount = 1]
      ELSE [base EXCEPT !.postText = text]
    ELSE
      LET acc == imageLoop(post.media, 0,
                   [thrown |-> FALSE, items |-> <<>>, mediaCount |-> 0,
                    capWarned |-> FALSE])
      IN [base EXCEPT !.thrown = acc.thrown,
                      !.postText = text,
                      !.embeddedMedia = ImageList(acc.items),
                      !.mediaCount = acc.mediaCount,
                      !.capWarned = acc.capWarned]

\* ------------------------------------------------------------------------
\* Archive data: media items with the state of their files
\* ------------------------------------------------------------------------

SharpFails == [kind |-> "metaThrows", outLen |-> 0]
SharpNoDims == [kind |-> "noDims", outLen |-> 0]
SharpResizes(n) == [kind |-> "ok", outLen |-> n]

\* One ArchiveMedia with the file its uri names.  type and buffer are the
\* fields of the same names the orchestrator reads from the archive record.
Media(ext, ts, title, readable, len, sharp) ==
  [uri |-> [name |-> 0, ext |-> ext],
   creation_timestamp |-> ts,
   title |-> title,
   exif |-> None,
   type |-> "",
   buffer |-> None,
   file |-> [readable |-> readable, len |-> len, sharp |-> sharp]]

JpgOk == Media("jpg", Some(2), Some(Str(2)), TRUE, 500000, SharpResizes(400000))
JpgUnreadable == Media("jpg", Some(2), Some(Str(2)), FALSE, 0, SharpFails)
JpgResized == Media("JPG", Some(2), Some(Str(2)), TRUE, 976001, SharpResizes(500000))
JpgTooLarge == Media("jpg", Some(2), Some(Str(2)), TRUE, 2000000, SharpResizes(976001))
JpgNoDims == Media("png", Some(2), Some(Str(2)), TRUE, 2000000, SharpNoDims)
JpgNoTimestamp == Media("jpg", None, Some(Str(2)), TRUE, 500000, SharpResizes(400000))
JpgUnreadableNoTimestamp == Media("jpg", None, Some(Str(2)), FALSE, 0, SharpFails)
JpgLongTitle == Media("jpg", Some(2), Some(Str(301)), TRUE, 500000, SharpResizes(400000))
JpgNoTitle == Media("jpg", Some(2), None, TRUE, 500000, SharpResizes(400000))
GifFile == Media("gif", Some(2), Some(Str(2)), TRUE, 500000, SharpFails)
Mp4Ok == Media("mp4", Some(2), Some(Str(2)), TRUE, 500000, SharpFails)
MovOk == Media("MOV", Some(2), Some(Str(2)), TRUE, 976000, SharpFails)
Mp4Unreadable == Media("mp4", Some(2), Some(Str(2)), FALSE, 0, SharpFails)
Mp4Large == Media("mp4", Some(2), Some(Str(2)), TRUE, 976001, SharpFails)
Mp4TooLarge == Media("mp4", Some(2), Some(Str(2)), TRUE, VIDEO_MAX_SIZE + 1, SharpFails)

\* the media items tried at the first position of a post
FirstMediaKinds ==
  {JpgOk, JpgUnreadable, JpgResized, JpgTooLarge, JpgNoDims, JpgNoTimestamp,
   JpgUnreadableNoTimestamp, JpgLongTitle, JpgNoTitle, GifFile, Mp4Ok, MovOk,
   Mp4Unreadable, Mp4Large, Mp4TooLarge}

\* the media items tried at the later positions
LaterMediaKinds == {JpgOk, JpgUnreadable, Mp4Ok}

\* the media items of a list named by their position
Named(media) == [j \in 1..Len(media) |-> [media[j] EXCEPT !.uri.name = j]]

SeqsUpTo(S, n) == UNION {[1..k -> S] : k \in 0..n}

MediaLists ==
  {<<>>} \cup
  {Named(<<f>> \o rest) : f \in FirstMediaKinds, rest \in SeqsUpTo(LaterMediaKinds, MaxMedia - 1)}

PostTitles == {None, Some(Str(0)), Some(Str(2)), Some(Str(300)), Some(Str(301)), Some(Str(400))}

\* the posts processPost is applied to on its own
PostInputs ==
  {[creation_timestamp |-> ts, title |-> title, media |-> media] :
     ts \in {None, Some(1)}, title \in PostTitles, media \in MediaLists}

\* ------------------------------------------------------------------------
\* Archive data: posts and run configurations for the orchestrator
\* ------------------------------------------------------------------------

At(m, t) == [m EXCEPT !.creation_timestamp = Some(t)]
Undated(m) == [m EXCEPT !.creation_timestamp = None]
AsVideo(m, len) == [m EXCEPT !.type = "Video", !.buffer = Some([len |-> len])]
AsVideoNoBuffer(m) == [m EXCEPT !.type = "Video"]

Post(ts, title, media) ==
  [id |-> 0, creation_timestamp |-> ts, title |-> title, media |-> Named(media)]

\* ordinary image posts: dated 1 (two images), dated 3 but first media dated 1,
\* dated 1 but first media dated 3
RegularPosts ==
  {Post(Some(1), Some(Str(2)), <<At(JpgOk, 1), At(JpgOk, 1)>>),
   Post(Some(3), Some(Str(2)), <<At(JpgOk, 1)>>),
   Post(Some(1), Some(Str(2)), <<At(JpgOk, 3)>>)}

\* posts with one special trait each
SpecialPosts ==
  {Post(None, None, <<At(JpgOk, 2)>>),
   Post(Some(2), Some(Str(2)), <<>>),
   Post(None, Some(Str(2)), <<>>),
   Post(Some(2), Some(Str(2)), <<AsVideo(At(Mp4Ok, 2), 500000)>>),
   Post(Some(2), Some(Str(2)), <<AsVideoNoBuffer(At(Mp4Ok, 2))>>),
   Post(Some(2), Some(Str(2)), <<AsVideo(At(Mp4Unreadable, 2), 500000), At(JpgOk, 2)>>),
   Post(None, Some(Str(2)), <<Undated(JpgUnreadable)>>),
   Post(Some(2), None, <<At(JpgNoTitle, 2)>>),
   Post(None, Some(Str(2)), <<At(JpgOk, 2), At(JpgOk, 2)>>),
   Post(Some(2), Some(Str(2)), <<Undated(JpgOk)>>),
   Post(Some(2), Some(Str(2)), <<AsVideo(At(Mp4Large, 2), 976001)>>)}

\* the posts of an archive named by their position in the file
Numbered(posts) == [i \in 1..Len(posts) |-> [posts[i] EXCEPT !.id = i]]

\* the pairs of regular-post sequences that leave room for one more post
Surroundings ==
  {ab \in SeqsUpTo(RegularPosts, MaxPosts - 1) \X SeqsUpTo(RegularPosts, MaxPosts - 1) :
     Len(ab[1]) + Len(ab[2]) < MaxPosts}

\* archives of at most MaxPosts posts, at most one of them special
Archives ==
  {Numbered(a) : a \in SeqsUpTo(RegularPosts, MaxPosts)} \cup
  {Numbered(ab[1] \o <<sp>> \o ab[2]) : sp \in SpecialPosts, ab \in Surroundings}

\* posts_1.json: a parsed archive, or None when it cannot be read or parsed
ArchiveFiles == {None} \cup {Some(a) : a \in Archives}

\* MIN_DATE and MAX_DATE as Dates (None: not set)
DateBounds ==
  {<<None, None>>, <<Some(2), None>>, <<Some(4), None>>, <<None, Some(2)>>,
   <<Some(2), Some(2)>>, <<Some(3), Some(1)>>}

EnvDate(d) == IF IsSome(d) THEN Some(NewDate(d)) ELSE None

\* ------------------------------------------------------------------------
\* State
\* ------------------------------------------------------------------------

VARIABLES
  pc,            \* position of main
  SIMULATE,      \* process.env.SIMULATE === "1"
  MIN_DATE,      \* optional Date
  MAX_DATE,      \* optional Date
  archiveFile,   \* content of the posts file
  instaPosts,    \* the parsed posts, sorted in place by the sort step
  idx,           \* position of the per-post loop in instaPosts, from 1
  result,        \* what processPost returned for the current post
  embeddedMedia, \* the embed main hands to createPost
  importedPosts,
  importedMedia,
  before,        \* the two counters when the current post's iteration began
  createStatus,  \* outcome of createPost for the current post
  delayed,       \* the rate-limit delay was taken for the current post
  bluesky,       \* the client: None while null
  inFlight,      \* client calls awaited and not yet settled
  calls,         \* number of client calls made, by operation
  delays,        \* rate-limit delay taken so far, in ms
  abortCause,    \* why main rejected
  estimate,      \* the estimated-time text of the summary: None while not logged
  ppPost,        \* processPost on its own: the post
  ppResult,      \* ... its result
  ppDone,        \* ... it was applied
  pmMedia,       \* processMedia on its own: the media item
  pmResult,      \* ... its result
  pmDone,        \* ... it was applied
  ibInput,       \* processImageBuffer on its own: the buffer and what sharp does with it
  ibResult,      \* ... its run record
  ibDone,        \* ... it was applied
  etMedia,       \* the estimate of the summary on its own: importedMedia
  etResult,      \* ... the text logged, None when there is none
  etDone         \* ... it was applied

vars ==
  <<pc, SIMULATE, MIN_DATE, MAX_DATE, archiveFile, instaPosts, idx, result,
    embeddedMedia, importedPosts, importedMedia, before, createStatus, delayed,
    bluesky, inFlight, calls, delays, abortCause, estimate, ppPost, ppResult, ppDone,
    pmMedia, pmResult, pmDone, ibInput, ibResult, ibDone, etMedia, etResult, etDone>>

mainVars ==
  <<pc, SIMULATE, MIN_DATE, MAX_DATE, archiveFile, instaPosts, idx, result,
    embeddedMedia, importedPosts, importedMedia, before, createStatus, delayed,
    bluesky, inFlight, calls, delays, abortCause, estimate>>

postVars == <<ppPost, ppResult, ppDone>>
mediaVars == <<pmMedia, pmResult, pmDone>>
imageVars == <<ibInput, ibResult, ibDone>>
estimateVars == <<etMedia, etResult, etDone>>

\* everything that is not the state of main
otherVars == <<postVars, mediaVars, imageVars, estimateVars>>

NoResult ==
  [thrown |-> FALSE, postDate |-> None, postText |-> None,
   embeddedMedia |-> ImageList(<<>>), mediaCount |-> 0, capWarned |-> FALSE]

NoPost == [creation_timestamp |-> None, title |-> None, media |-> <<>>]

NoCalls == [login |-> 0, uploadVideo |-> 0, createPost |-> 0]

\* main before its first statement, for one environment and one posts file
MainStart ==
  /\ pc = "start"
  /\ SIMULATE \in BOOLEAN
  /\ \E b \in DateBounds : MIN_DATE = EnvDate(b[1]) /\ MAX_DATE = EnvDate(b[2])
  /\ archiveFile \in ArchiveFiles
  /\ instaPosts = <<>>
  /\ idx = 0
  /\ result = NoResult
  /\ embeddedMedia = ImageList(<<>>)
  /\ importedPosts = 0
  /\ importedMedia = 0
  /\ before = [posts |-> 0, media |-> 0]
  /\ createStatus = "none"
  /\ delayed = FALSE
  /\ bluesky = None
  /\ inFlight = {}
  /\ calls = NoCalls
  /\ delays = 0
  /\ abortCause = "none"
  /\ estimate = None

\* main is not run; the mode is left open
MainIdleInMode ==
  /\ pc = "idle"
  /\ MIN_DATE = None
  /\ MAX_DATE = None
  /\ archiveFile = None
  /\ instaPosts = <<>>
  /\ idx = 0
  /\ result = NoResult
  /\ embeddedMedia = ImageList(<<>>)
  /\ importedPosts = 0
  /\ importedMedia = 0
  /\ before = [posts |-> 0, media |-> 0]
  /\ createStatus = "none"
  /\ delayed = FALSE
  /\ bluesky = None
  /\ inFlight = {}
  /\ calls = NoCalls
  /\ delays = 0
  /\ abortCause = "none"
  /\ estimate = None

MainIdle == MainIdleInMode /\ SIMULATE = TRUE

PostIdle ==
  /\ ppPost = NoPost
  /\ ppResult = NoResult
  /\ ppDone = FALSE

MediaIdle ==
  /\ pmMedia = JpgOk
  /\ pmResult = MediaFailed
  /\ pmDone = FALSE

NoImageInput ==
  [mediaBuffer |-> [file |-> [name |-> 0, ext |-> "jpg"], len |-> 0, resized |-> FALSE],
   sharp |-> SharpFails]

NoImageRun == [thrown |-> FALSE, value |-> None, metadataCalls |-> 0, resizePasses |-> 0]

ImageIdle ==
  /\ ibInput = NoImageInput
  /\ ibResult = NoImageRun
  /\ ibDone = FALSE

EstimateIdle ==
  /\ etMedia = 0
  /\ etResult = None
  /\ etDone = FALSE

\* ------------------------------------------------------------------------
\* processPost applied to one post on its own
\* ------------------------------------------------------------------------

InitPost ==
  /\ MainIdle
  /\ MediaIdle /\ ImageIdle /\ EstimateIdle
  /\ ppPost \in PostInputs
  /\ ppResult = NoResult
  /\ ppDone = FALSE

ApplyProcessPost ==
  /\ ~ppDone
  /\ ppResult' = processPost(ppPost)
  /\ ppDone' = TRUE
  /\ UNCHANGED ppPost
  /\ UNCHANGED mainVars
  /\ UNCHANGED <<mediaVars, imageVars, estimateVars>>

NextPost == ApplyProcessPost

SpecPost == InitPost /\ [][NextPost]_vars

\* ------------------------------------------------------------------------
\* processMedia applied to one media item on its own
\* ------------------------------------------------------------------------

\* the first EXIF entries tried: none, a northern one, a southern one, the equator
ExifData ==
  {None, Some([latitude |-> 45, longitude |-> -12]),
   Some([latitude |-> -5, longitude |-> 10]), Some([latitude |-> 0, longitude |-> 7])}

MediaTitles ==
  {None, Some(Str(0)), Some(Str(2)), Some(Str(60)), Some(Str(99)), Some(Str(100)),
   Some(Str(101))}

\* the files tried: missing, small, above the image ceiling and resizable
MediaFiles ==
  {[readable |-> FALSE, len |-> 0, sharp |-> SharpFails],
   [readable |-> TRUE, len |-> 500000, sharp |-> SharpFails],
   [readable |-> TRUE, len |-> 976001, sharp |-> SharpResizes(500000)]}

MediaInputs ==
  {[Media(ext, ts, title, f.readable, f.len, f.sharp) EXCEPT !.exif = exif] :
     ext \in {"jpg", "mp4", "gif"}, ts \in {None, Some(2)}, title \in MediaTitles,
     f \in MediaFiles, exif \in ExifData}

InitMedia ==
  /\ MainIdle
  /\ PostIdle /\ ImageIdle /\ EstimateIdle
  /\ pmMedia \in MediaInputs
  /\ pmResult = MediaFailed
  /\ pmDone = FALSE

ApplyProcessMedia ==
  /\ ~pmDone
  /\ pmResult' = processMedia(pmMedia)
  /\ pmDone' = TRUE
  /\ UNCHANGED pmMedia
  /\ UNCHANGED mainVars
  /\ UNCHANGED <<postVars, imageVars, estimateVars>>

NextMedia == ApplyProcessMedia

SpecMedia == InitMedia /\ [][NextMedia]_vars

\* ------------------------------------------------------------------------
\* processImageBuffer applied to one buffer on its own
\* ------------------------------------------------------------------------

BufferLengths == {0, 1, 900000, 975999, 976000, 976001, 1000000, 2000000}

SharpBehaviours ==
  {SharpFails, SharpNoDims, [kind |-> "resizeThrows", outLen |-> 0],
   [kind |-> "remetaThrows", outLen |-> 500000]}
  \cup {SharpResizes(n) : n \in {1, 500000, 975999, 976000, 976001, 1500000}}

ImageInputs ==
  {[mediaBuffer |-> [file |-> [name |-> 0, ext |-> ext], len |-> len, resized |-> FALSE],
    sharp |-> sharp] :
     ext \in {"jpg", "mp4"}, len \in BufferLengths, sharp \in SharpBehaviours}

InitImage ==
  /\ MainIdle
  /\ PostIdle /\ MediaIdle /\ EstimateIdle
  /\ ibInput \in ImageInputs
  /\ ibResult = NoImageRun
  /\ ibDone = FALSE

ApplyProcessImageBuffer ==
  /\ ~ibDone
  /\ ibResult' = processImageBufferRun(ibInput.mediaBuffer, ibInput.sharp)
  /\ ibDone' = TRUE
  /\ UNCHANGED ibInput
  /\ UNCHANGED mainVars
  /\ UNCHANGED <<postVars, mediaVars, estimateVars>>

NextImage == ApplyProcessImageBuffer

SpecImage == InitImage /\ [][NextImage]_vars

\* ------------------------------------------------------------------------
\* The publish orchestrator: main
\* ------------------------------------------------------------------------

\* the timestamp the sort comparator reads: a.media[0].creation_timestamp
firstMediaTimestamp(post) == post.media[1].creation_timestamp

Orderings(n) == {f \in [1..n -> 1..n] : \A i, k \in 1..n : f[i] = f[k] => i = k}

\* ascending by first-media timestamp, equal keys in their original order
stableSort(posts) ==
  LET n == Len(posts)
      key(i) == Val(firstMediaTimestamp(posts[i]))
      f == CHOOSE g \in Orderings(n) :
             \A i, k \in 1..n :
               i < k => \/ key(g[i]) < key(g[k])
                        \/ (key(g[i]) = key(g[k]) /\ g[i] < g[k])
  IN [i \in 1..n |-> posts[f[i]]]

\* the comparator dereferences media[0] of every post it is given
sortThrows(posts) == Len(posts) > 1 /\ \E i \in 1..Len(posts) : Len(posts[i].media) = 0

\* The arrays instaPosts.sort(...) can leave.  A comparator that returns NaN
\* (a missing first-media timestamp) is not a consistent comparator, and the
\* order is then implementation-defined: any permutation.
sortOutcomes(posts) ==
  IF Len(posts) <= 1 THEN {posts}
  ELSE IF \A i \in 1..Len(posts) : IsSome(firstMediaTimestamp(posts[i]))
  THEN {stableSort(posts)}
  ELSE {[i \in 1..Len(posts) |-> posts[f[i]]] : f \in Orderings(Len(posts))}

\* checkDate of the loop; thrown when post.media[0] is dereferenced on an
\* empty media list
checkDateOf(post) ==
  IF IsSome(post.creation_timestamp)
  THEN [thrown |-> FALSE, date |-> Some(NewDate(post.creation_timestamp))]
  ELSE IF Len(post.media) = 0 THEN [thrown |-> TRUE, date |-> None]
  ELSE IF IsSome(post.media[1].creation_timestamp)
  THEN [thrown |-> FALSE, date |-> Some(NewDate(post.media[1].creation_timestamp))]
  ELSE [thrown |-> FALSE, date |-> None]

\* dateFilter with the MAX_DATE test skipping the post instead of leaving the loop
dateFilter_skipAfterMax(checkDate, minDate, maxDate) ==
  IF checkDate = None THEN "continue"
  ELSE IF IsSome(minDate) /\ DateLT(Val(checkDate), Val(minDate)) THEN "continue"
  ELSE IF IsSome(maxDate) /\ DateGT(Val(checkDate), Val(maxDate)) THEN "continue"
  ELSE "process"

\* the three date tests of the loop, in their order: "continue", "break" or
\* "process"
dateFilter(checkDate, minDate, maxDate) ==
  IF checkDate = None THEN "continue"
  ELSE IF IsSome(minDate) /\ DateLT(Val(checkDate), Val(minDate)) THEN "continue"
  ELSE IF IsSome(maxDate) /\ DateGT(Val(checkDate), Val(maxDate)) THEN "break"
  ELSE "process"

InLoop == pc \in {"loop", "process", "video", "upload", "recheck", "delay", "create",
                  "count", "log"}

CurrentPost == instaPosts[idx]

\* main rejects: the run is over
Abort(cause) ==
  /\ pc' = "aborted"
  /\ abortCause' = cause
  /\ inFlight' = {}

\* the loop moves on to the next post with the given counters
Continue(posts, media) ==
  /\ pc' = "loop"
  /\ idx' = idx + 1
  /\ importedPosts' = posts
  /\ importedMedia' = media
  /\ before' = [posts |-> posts, media |-> media]
  /\ result' = NoResult
  /\ embeddedMedia' = ImageList(<<>>)
  /\ createStatus' = "none"
  /\ delayed' = FALSE
  /\ inFlight' = {}

\* lines 80-110: the environment is read; in live mode the client is built and
\* login is called
Start ==
  /\ pc = "start"
  /\ IF ~SIMULATE
     THEN /\ bluesky' = Some([loggedIn |-> FALSE])
          /\ inFlight' = {"login"}
          /\ calls' = [calls EXCEPT !.login = @ + 1]
          /\ pc' = "login"
     ELSE /\ pc' = "read"
          /\ UNCHANGED <<bluesky, inFlight, calls>>
  /\ UNCHANGED <<SIMULATE, MIN_DATE, MAX_DATE, archiveFile, instaPosts, idx, result,
                 embeddedMedia, importedPosts, importedMedia, before, createStatus,
                 delayed, delays, abortCause>>
  /\ UNCHANGED estimate
  /\ UNCHANGED otherVars

\* LoginReturns going on to the archive when login failed
LoginReturns_ignoresFailure ==
  /\ pc = "login"
  /\ \/ bluesky' = Some([loggedIn |-> TRUE])
     \/ UNCHANGED bluesky
  /\ inFlight' = {}
  /\ pc' = "read"
  /\ UNCHANGED <<SIMULATE, MIN_DATE, MAX_DATE, archiveFile, instaPosts, idx, result,
                 embeddedMedia, importedPosts, importedMedia, before, createStatus,
                 delayed, calls, delays, abortCause>>
  /\ UNCHANGED estimate
  /\ UNCHANGED otherVars

\* await bluesky.login() settles
LoginReturns ==
  /\ pc = "login"
  /\ \/ /\ bluesky' = Some([loggedIn |-> TRUE])
        /\ inFlight' = {}
        /\ pc' = "read"
        /\ UNCHANGED abortCause
     \/ /\ Abort("login")
        /\ UNCHANGED bluesky
  /\ UNCHANGED <<SIMULATE, MIN_DATE, MAX_DATE, archiveFile, instaPosts, idx, result,
                 embeddedMedia, importedPosts, importedMedia, before, createStatus,
                 delayed, calls, delays>>
  /\ UNCHANGED estimate
  /\ UNCHANGED otherVars

\* lines 112-132: the posts file is read and parsed
ReadArchive ==
  /\ pc = "read"
  /\ IF archiveFile = None
     THEN /\ Abort("archive")
          /\ UNCHANGED instaPosts
     ELSE /\ instaPosts' = Val(archiveFile)
          /\ pc' = "sort"
          /\ UNCHANGED <<abortCause, inFlight>>
  /\ UNCHANGED <<SIMULATE, MIN_DATE, MAX_DATE, archiveFile, idx, result, embeddedMedia,
                 importedPosts, importedMedia, before, createStatus, delayed, bluesky,
                 calls, delays>>
  /\ UNCHANGED estimate
  /\ UNCHANGED otherVars

\* lines 134-139: the posts are sorted in place
SortPosts ==
  /\ pc = "sort"
  /\ IF Len(instaPosts) = 0
     THEN /\ pc' = "summary"
          /\ UNCHANGED <<instaPosts, idx, abortCause, inFlight>>
     ELSE IF sortThrows(instaPosts)
     THEN /\ Abort("sort")
          /\ UNCHANGED <<instaPosts, idx>>
     ELSE /\ instaPosts' \in sortOutcomes(instaPosts)
          /\ idx' = 1
          /\ pc' = "loop"
          /\ UNCHANGED <<abortCause, inFlight>>
  /\ UNCHANGED <<SIMULATE, MIN_DATE, MAX_DATE, archiveFile, result, embeddedMedia,
                 importedPosts, importedMedia, before, createStatus, delayed, bluesky,
                 calls, delays>>
  /\ UNCHANGED estimate
  /\ UNCHANGED otherVars

\* the for loop has no post left
LoopExit ==
  /\ pc = "loop"
  /\ idx > Len(instaPosts)
  /\ pc' = "summary"
  /\ UNCHANGED <<SIMULATE, MIN_DATE, MAX_DATE, archiveFile, instaPosts, idx, result,
                 embeddedMedia, importedPosts, importedMedia, before, createStatus,
                 delayed, bluesky, inFlight, calls, delays, abortCause>>
  /\ UNCHANGED estimate
  /\ UNCHANGED otherVars

\* lines 141-168: the check-date and the date filters of one post
Evaluate ==
  /\ pc = "loop"
  /\ idx <= Len(instaPosts)
  /\ LET cd == checkDateOf(CurrentPost)
         verdict == dateFilter(cd.date, MIN_DATE, MAX_DATE)
     IN
     IF cd.thrown
     THEN /\ Abort("post")
          /\ UNCHANGED <<idx, importedPosts, importedMedia, before, result, embeddedMedia,
                         createStatus, delayed>>
     ELSE IF verdict = "continue"
     THEN Continue(importedPosts, importedMedia) /\ UNCHANGED abortCause
     ELSE IF verdict = "break"
     THEN /\ pc' = "summary"
          /\ UNCHANGED <<idx, importedPosts, importedMedia, before, result, embeddedMedia,
                         createStatus, delayed, inFlight, abortCause>>
     ELSE /\ pc' = "process"
          /\ UNCHANGED <<idx, importedPosts, importedMedia, before, result, embeddedMedia,
                         createStatus, delayed, inFlight, abortCause>>
  /\ UNCHANGED <<SIMULATE, MIN_DATE, MAX_DATE, archiveFile, instaPosts, bluesky, calls,
                 delays>>
  /\ UNCHANGED estimate
  /\ UNCHANGED otherVars

\* lines 170-189: processPost, then the debug record that reads
\* post.media[0].type
ProcessPostStep ==
  /\ pc = "process"
  /\ LET r == processPost(CurrentPost) IN
     IF r.thrown \/ Len(CurrentPost.media) = 0
     THEN /\ Abort("post")
          /\ UNCHANGED <<result, embeddedMedia>>
     ELSE /\ result' = r
          /\ embeddedMedia' = r.embeddedMedia
          /\ pc' = IF CurrentPost.media[1].type = "Video" THEN "video" ELSE "recheck"
          /\ UNCHANGED <<abortCause, inFlight>>
  /\ UNCHANGED <<SIMULATE, MIN_DATE, MAX_DATE, archiveFile, instaPosts, idx,
                 importedPosts, importedMedia, before, createStatus, delayed, bluesky,
                 calls, delays>>
  /\ UNCHANGED estimate
  /\ UNCHANGED otherVars

\* prepareVideoUpload(filePath, buffer): the upload metadata of a video
prepareVideoUpload(media) ==
  [ref |-> None, mimeType |-> "video/mp4", buffer |-> Val(media.buffer)]

\* createVideoEmbed(videoData)
createVideoEmbed(videoData) ==
  VideoObject([alt |-> <<>>, buffer |-> videoData.buffer, mimeType |-> videoData.mimeType,
               ref |-> videoData.ref])

\* VideoStep submitting the post with the embed of processPost when the video
\* bytes are absent
VideoStep_submitsWithoutBytes ==
  /\ pc = "video"
  /\ LET media == CurrentPost.media[1] IN
     \/ /\ media.buffer = None
        /\ pc' = "recheck"
        /\ UNCHANGED <<idx, importedPosts, importedMedia, before, result, embeddedMedia,
                       createStatus, delayed, inFlight, calls>>
     \/ /\ media.buffer # None
        /\ Continue(importedPosts, importedMedia)
        /\ UNCHANGED calls
     \/ /\ media.buffer # None
        /\ ~SIMULATE /\ bluesky # None
        /\ inFlight' = {"uploadVideo"}
        /\ calls' = [calls EXCEPT !.uploadVideo = @ + 1]
        /\ pc' = "upload"
        /\ UNCHANGED <<idx, importedPosts, importedMedia, before, result, embeddedMedia,
                       createStatus, delayed>>
     \/ /\ media.buffer # None
        /\ ~(~SIMULATE /\ bluesky # None)
        /\ embeddedMedia' = createVideoEmbed(prepareVideoUpload(media))
        /\ pc' = "recheck"
        /\ UNCHANGED <<idx, importedPosts, importedMedia, before, result, createStatus,
                       delayed, inFlight, calls>>
  /\ UNCHANGED <<SIMULATE, MIN_DATE, MAX_DATE, archiveFile, instaPosts, bluesky, delays,
                 abortCause>>
  /\ UNCHANGED estimate
  /\ UNCHANGED otherVars

\* lines 191-208 with processVideoPost up to the upload (lines 45-61): the
\* buffer test and the metadata; in live mode uploadVideo is called, otherwise the
\* embed is built at once.  Every failure is caught by main, which goes on with
\* the next post.
VideoStep ==
  /\ pc = "video"
  /\ LET media == CurrentPost.media[1] IN
     \/ /\ media.buffer = None
        /\ Continue(importedPosts, importedMedia)
        /\ UNCHANGED calls
     \/ /\ media.buffer # None
        /\ Continue(importedPosts, importedMedia)
        /\ UNCHANGED calls
     \/ /\ media.buffer # None
        /\ ~SIMULATE /\ bluesky # None
        /\ inFlight' = {"uploadVideo"}
        /\ calls' = [calls EXCEPT !.uploadVideo = @ + 1]
        /\ pc' = "upload"
        /\ UNCHANGED <<idx, importedPosts, importedMedia, before, result, embeddedMedia,
                       createStatus, delayed>>
     \/ /\ media.buffer # None
        /\ ~(~SIMULATE /\ bluesky # None)
        /\ embeddedMedia' = createVideoEmbed(prepareVideoUpload(media))
        /\ pc' = "recheck"
        /\ UNCHANGED <<idx, importedPosts, importedMedia, before, result, createStatus,
                       delayed, inFlight, calls>>
  /\ UNCHANGED <<SIMULATE, MIN_DATE, MAX_DATE, archiveFile, instaPosts, bluesky, delays,
                 abortCause>>
  /\ UNCHANGED estimate
  /\ UNCHANGED otherVars

\* lines 61-71 and 200-208: await bluesky.uploadVideo(buffer) settles with a
\* reference, or without one or by throwing
UploadReturns ==
  /\ pc = "upload"
  /\ \/ /\ embeddedMedia' =
             createVideoEmbed([prepareVideoUpload(CurrentPost.media[1])
                                 EXCEPT !.ref = Some("cid")])
        /\ inFlight' = {}
        /\ pc' = "recheck"
        /\ UNCHANGED <<idx, importedPosts, importedMedia, before, result, createStatus,
                       delayed>>
     \/ Continue(importedPosts, importedMedia)
  /\ UNCHANGED <<SIMULATE, MIN_DATE, MAX_DATE, archiveFile, instaPosts, bluesky, calls,
                 delays, abortCause>>
  /\ UNCHANGED estimate
  /\ UNCHANGED otherVars

\* lines 219-224: the post without a date is skipped; otherwise the mode
\* decides between the live and the simulated submission
Recheck ==
  /\ pc = "recheck"
  /\ IF result.postDate = None
     THEN Continue(importedPosts, importedMedia)
     ELSE /\ pc' = IF ~SIMULATE /\ bluesky # None THEN "delay" ELSE "count"
          /\ UNCHANGED <<idx, importedPosts, importedMedia, before, result, embeddedMedia,
                         createStatus, delayed, inFlight>>
  /\ UNCHANGED <<SIMULATE, MIN_DATE, MAX_DATE, archiveFile, instaPosts, bluesky, calls,
                 delays, abortCause>>
  /\ UNCHANGED estimate
  /\ UNCHANGED otherVars

\* Delay calling createPost without waiting
Delay_noWait ==
  /\ pc = "delay"
  /\ inFlight' = {"createPost"}
  /\ calls' = [calls EXCEPT !.createPost = @ + 1]
  /\ pc' = "create"
  /\ UNCHANGED <<SIMULATE, MIN_DATE, MAX_DATE, archiveFile, instaPosts, idx, result,
                 embeddedMedia, importedPosts, importedMedia, before, createStatus,
                 bluesky, abortCause, delayed, delays>>
  /\ UNCHANGED estimate
  /\ UNCHANGED otherVars

\* lines 225-233: the rate-limit delay elapses and createPost is called
Delay ==
  /\ pc = "delay"
  /\ delayed' = TRUE
  /\ delays' = delays + API_RATE_LIMIT_DELAY
  /\ inFlight' = {"createPost"}
  /\ calls' = [calls EXCEPT !.createPost = @ + 1]
  /\ pc' = "create"
  /\ UNCHANGED <<SIMULATE, MIN_DATE, MAX_DATE, archiveFile, instaPosts, idx, result,
                 embeddedMedia, importedPosts, importedMedia, before, createStatus,
                 bluesky, abortCause>>
  /\ UNCHANGED estimate
  /\ UNCHANGED otherVars

\* lines 229-246: await bluesky.createPost(...) settles with a url, with no
\* url, or by throwing
CreatePostReturns ==
  /\ pc = "create"
  /\ \/ /\ importedPosts' = importedPosts + 1
        /\ createStatus' = "created"
     \/ /\ createStatus' = "nourl"
        /\ UNCHANGED importedPosts
     \/ /\ createStatus' = "threw"
        /\ UNCHANGED importedPosts
  /\ inFlight' = {}
  /\ pc' = "log"
  /\ UNCHANGED <<SIMULATE, MIN_DATE, MAX_DATE, archiveFile, instaPosts, idx, result,
                 embeddedMedia, importedMedia, before, delayed, bluesky, calls, delays,
                 abortCause>>
  /\ UNCHANGED estimate
  /\ UNCHANGED otherVars

\* lines 247-249: the simulated post is counted
CountSimulated ==
  /\ pc = "count"
  /\ importedPosts' = importedPosts + 1
  /\ pc' = "log"
  /\ UNCHANGED <<SIMULATE, MIN_DATE, MAX_DATE, archiveFile, instaPosts, idx, result,
                 embeddedMedia, importedMedia, before, createStatus, delayed, bluesky,
                 inFlight, calls, delays, abortCause>>
  /\ UNCHANGED estimate
  /\ UNCHANGED otherVars

\* the debug record of lines 251-259 reads postDate.toISOString() and
\* postText.length
logThrows(r) == ~Val(r.postDate).valid \/ r.postText = None

\* lines 251-262: the debug record, then importedMedia += mediaCount
LogAndCount ==
  /\ pc = "log"
  /\ IF logThrows(result)
     THEN /\ Abort("post")
          /\ UNCHANGED <<idx, importedPosts, importedMedia, before, result, embeddedMedia,
                         createStatus, delayed>>
     ELSE /\ Continue(importedPosts, importedMedia + result.mediaCount)
          /\ UNCHANGED abortCause
  /\ UNCHANGED <<SIMULATE, MIN_DATE, MAX_DATE, archiveFile, instaPosts, bluesky, calls,
                 delays>>
  /\ UNCHANGED estimate
  /\ UNCHANGED otherVars

\* " hours and " and " minutes"
HoursAnd == <<" ", "h", "o", "u", "r", "s", " ", "a", "n", "d", " ">>
MinutesWord == <<" ", "m", "i", "n", "u", "t", "e", "s">>

\* Math.round(num / den) for num >= 0 and den > 0: halves go up
MathRound(num, den) == (2 * num + den) \div (2 * den)

\* calculateEstimatedTime without the 10% margin
calculateEstimatedTime_noMargin(media) ==
  LET minutes == MathRound(media * API_RATE_LIMIT_DELAY, 1000 * 60)
      hours == minutes \div 60
      min == minutes % 60
  IN NatToString(hours) \o HoursAnd \o NatToString(min) \o MinutesWord

\* lines 275-282.  importedMedia * 3000 / 1000 / 60 * 1.1 is importedMedia * 33 / 600;
\* the double the program computes lies within 1e-12 of that value, above it or
\* equal to it at the halves, so Math.round gives the same integer.
calculateEstimatedTime(media) ==
  LET minutes == MathRound(media * API_RATE_LIMIT_DELAY * 11, 1000 * 60 * 10)
      hours == minutes \div 60
      min == minutes % 60
  IN NatToString(hours) \o HoursAnd \o NatToString(min) \o MinutesWord

\* lines 265-268: the estimate logged by the summary, None in live mode
summaryEstimate(simulate, media) ==
  IF simulate THEN Some(calculateEstimatedTime(media)) ELSE None

\* lines 265-272: in simulate mode the estimate is logged; the final counts are
\* logged in both modes
Summary ==
  /\ pc = "summary"
  /\ pc' = "done"
  /\ estimate' = summaryEstimate(SIMULATE, importedMedia)
  /\ UNCHANGED <<SIMULATE, MIN_DATE, MAX_DATE, archiveFile, instaPosts, idx, result,
                 embeddedMedia, importedPosts, importedMedia, before, createStatus,
                 delayed, bluesky, inFlight, calls, delays, abortCause>>
  /\ UNCHANGED otherVars

Init == MainStart /\ PostIdle /\ MediaIdle /\ ImageIdle /\ EstimateIdle

\* ------------------------------------------------------------------------
\* The estimate of the summary applied to one mode and media total on its own
\* ------------------------------------------------------------------------

InitEstimate ==
  /\ MainIdleInMode
  /\ SIMULATE \in BOOLEAN
  /\ PostIdle /\ MediaIdle /\ ImageIdle
  /\ etMedia \in 0..MaxImportedMedia
  /\ etResult = None
  /\ etDone = FALSE

ApplySummaryEstimate ==
  /\ ~etDone
  /\ etResult' = summaryEstimate(SIMULATE, etMedia)
  /\ etDone' = TRUE
  /\ UNCHANGED etMedia
  /\ UNCHANGED mainVars
  /\ UNCHANGED <<postVars, mediaVars, imageVars>>

NextEstimate == ApplySummaryEstimate

SpecEstimate == InitEstimate /\ [][NextEstimate]_vars

Next ==
  \/ Start
  \/ LoginReturns
  \/ ReadArchive
  \/ SortPosts
  \/ LoopExit
  \/ Evaluate
  \/ ProcessPostStep
  \/ VideoStep
  \/ UploadReturns
  \/ Recheck
  \/ Delay
  \/ CreatePostReturns
  \/ CountSimulated
  \/ LogAndCount
  \/ Summary

Spec == Init /\ [][Next]_vars

\* ------------------------------------------------------------------------
\* Properties of processPost (checked under SpecPost)
\* ------------------------------------------------------------------------

Returned == ppDone /\ ~ppResult.thrown

\* the first media item has a video extension (mp4/mov)
FirstIsVideoFile(post) ==
  Len(post.media) > 0 /\ getVideoMimeType(post.media[1].uri.ext) # ""

\* a media item the image loop would embed
Qualifies(m) == LET r == processMedia(m) IN ~r.thrown /\ ~skipMedia(r)

\* the image embed of a qualifying media item
EmbedOf(m) ==
  LET r == processMedia(m) IN ImageEmbedImpl(r.mediaText, Val(r.mediaBuffer), Val(r.mimeType))

QualifyingCount(post) == Cardinality({j \in 1..Len(post.media) : Qualifies(post.media[j])})

\* C1: when the first media item of a post has a video extension, the embed
\* returned by processPost never holds an image: it is a single video embed, or
\* it is empty with mediaCount 0.
C1_VideoFirstNeverImages ==
  (Returned /\ FirstIsVideoFile(ppPost)) =>
     /\ ppResult.embeddedMedia.items = <<>>
     /\ (ppResult.embeddedMedia.isArray => ppResult.mediaCount = 0)

\* the text processPost starts from: the post's own title, or the title of the
\* single media item when the post has none
SourceText(post) ==
  IF IsSome(post.title) /\ Val(post.title) # <<>> THEN post.title
  ELSE IF Len(post.media) = 1 THEN post.media[1].title
  ELSE Some(<<>>)

\* C2: the postText returned by processPost is a string of at most 300
\* characters: a source text (own title, or the single media item's title as
\* fallback) longer than 300 characters becomes its first 297 characters
\* followed by "...", a shorter one is returned unchanged.
C2_PostTextAtMost300 ==
  Returned =>
     /\ IsSome(ppResult.postText)
     /\ Len(Val(ppResult.postText)) <= POST_TEXT_LIMIT
     /\ LET src == IF IsSome(SourceText(ppPost)) THEN Val(SourceText(ppPost)) ELSE <<>> IN
        IF Len(src) > POST_TEXT_LIMIT
        THEN Val(ppResult.postText) = SubSeq(src, 1, 297) \o <<".", ".", ".">>
        ELSE Val(ppResult.postText) = src

\* C6 as stated: the image list has at most 4 entries, and for a post with at
\* least 5 qualifying images it has exactly 4 entries, the first four media
\* items in archive order, and the cap warning is emitted.
C6_FiveQualifyingGiveFour ==
  (Returned /\ ppResult.embeddedMedia.isArray) =>
     /\ Len(ppResult.embeddedMedia.items) <= 4
     /\ (~FirstIsVideoFile(ppPost) /\ QualifyingCount(ppPost) >= 5) =>
          /\ Len(ppResult.embeddedMedia.items) = 4
          /\ ppResult.embeddedMedia.items = [j \in 1..4 |-> EmbedOf(ppPost.media[j])]
          /\ ppResult.capWarned

FirstFourQualify(post) ==
  Len(post.media) >= 4 /\ \A j \in 1..4 : Qualifies(post.media[j])

\* C6 (amended): the image list has at most 4 entries, and for a post with at
\* least 5 qualifying images whose first four media items all qualify it has
\* exactly 4 entries, those first four media items in archive order, and the
\* cap warning is emitted.
C6_ImageCap ==
  (Returned /\ ppResult.embeddedMedia.isArray) =>
     /\ Len(ppResult.embeddedMedia.items) <= 4
     /\ (QualifyingCount(ppPost) >= 5 /\ FirstFourQualify(ppPost)) =>
          /\ Len(ppResult.embeddedMedia.items) = 4
          /\ ppResult.embeddedMedia.items = [j \in 1..4 |-> EmbedOf(ppPost.media[j])]
          /\ ppResult.capWarned

C6_Witness ==
  /\ Returned
  /\ QualifyingCount(ppPost) >= 5
  /\ FirstFourQualify(ppPost)
  /\ Len(ppResult.embeddedMedia.items) = 4
  /\ ppResult.capWarned

\* C7: the publish date resolved by processPost is the post's own timestamp
\* when present, otherwise the first media item's timestamp when present,
\* otherwise absent (null), whatever the number of media items.
C7_DateResolution ==
  Returned =>
     ppResult.postDate =
       IF IsSome(ppPost.creation_timestamp) THEN Some(NewDate(ppPost.creation_timestamp))
       ELSE IF Len(ppPost.media) > 0 /\ IsSome(ppPost.media[1].creation_timestamp)
            THEN Some(NewDate(ppPost.media[1].creation_timestamp))
            ELSE None

\* ------------------------------------------------------------------------
\* Properties of the orchestrator (checked under Spec)
\* ------------------------------------------------------------------------

\* the loop has reached the k-th post of the sorted archive
Reached(k) == k >= 1 /\ k <= Len(instaPosts) /\ idx >= k

\* the check-date of a post: its own timestamp, else its first media item's
ResolvedCheckDate(post) ==
  IF IsSome(post.creation_timestamp) THEN Some(NewDate(post.creation_timestamp))
  ELSE IF Len(post.media) > 0 /\ IsSome(post.media[1].creation_timestamp)
  THEN Some(NewDate(post.media[1].creation_timestamp))
  ELSE None

IsUndated(post) == ResolvedCheckDate(post) = None

BeforeMin(post) ==
  /\ IsSome(ResolvedCheckDate(post)) /\ IsSome(MIN_DATE)
  /\ Val(ResolvedCheckDate(post)).ms < Val(MIN_DATE).ms

AfterMax(post) ==
  /\ IsSome(ResolvedCheckDate(post)) /\ IsSome(MAX_DATE)
  /\ Val(ResolvedCheckDate(post)).ms > Val(MAX_DATE).ms

InBounds(post) == ~IsUndated(post) /\ ~BeforeMin(post) /\ ~AfterMax(post)

CountersUntouched == importedPosts = before.posts /\ importedMedia = before.media

\* C3: in live mode, when createPost did not succeed for a post (it threw or
\* returned no url), the step that ends the post's iteration leaves both
\* counters where they were when the iteration began and moves to the next post.
\* Stated for a post whose debug record can be written (text and date defined),
\* so that only the counting after a failed submission is at stake.
C3_FailedCreateLeavesCounters ==
  [][(pc = "log" /\ ~SIMULATE /\ createStatus \in {"nourl", "threw"} /\ ~logThrows(result)) =>
       /\ importedPosts' = before.posts
       /\ importedMedia' = before.media
       /\ pc' = "loop"
       /\ idx' = idx + 1]_vars

\* C4: once login and the archive read have succeeded, nothing aborts the run:
\* main rejects only for a failed login or an unreadable archive.
C4_NoPostAbortsRun == pc = "aborted" => abortCause \in {"login", "archive"}

\* a post with no media and its own timestamp inside the date bounds
EmptyMediaEligible(post) ==
  Len(post.media) = 0 /\ IsSome(post.creation_timestamp) /\ InBounds(post)

\* C5: a post with an empty media list and its own timestamp inside the bounds
\* passes through the orchestrator: the run does not abort on it, and it reaches
\* the submission with an empty embed and mediaCount 0.
C5_EmptyMediaPostPublished ==
  (Reached(idx) /\ EmptyMediaEligible(instaPosts[idx])) =>
     /\ pc # "aborted"
     /\ (pc \in {"delay", "create", "count", "log"} =>
           embeddedMedia = ImageList(<<>>) /\ result.mediaCount = 0)

\* C8 as stated: once the loop has reached a post whose check-date is later
\* than MAX_DATE, it has ended there: the loop never moves past that post and
\* that post changes no counter.
C8_StopAtFirstAfterMax ==
  \A k \in 1..Len(instaPosts) :
    (Reached(k) /\ AfterMax(instaPosts[k])) =>
       /\ idx = k
       /\ pc \in {"loop", "summary", "done"}
       /\ CountersUntouched

\* C8 (amended): once the loop has reached a post whose check-date is later
\* than MAX_DATE and not earlier than MIN_DATE, it has ended there: the loop
\* never moves past that post and that post changes no counter.
C8_StopAtMaxDate ==
  \A k \in 1..Len(instaPosts) :
    (Reached(k) /\ AfterMax(instaPosts[k]) /\ ~BeforeMin(instaPosts[k])) =>
       /\ idx = k
       /\ pc \in {"loop", "summary", "done"}
       /\ CountersUntouched

\* the run ended at a post after MAX_DATE, after importing an earlier post and
\* with a later post whose own check-date lies within the bounds
C8_Witness ==
  /\ pc = "done"
  /\ Reached(idx)
  /\ AfterMax(instaPosts[idx]) /\ ~BeforeMin(instaPosts[idx])
  /\ importedPosts > 0
  /\ \E j \in (idx + 1)..Len(instaPosts) : InBounds(instaPosts[j])

\* every timestamped post of the archive is dated before MIN_DATE
MinDateAfterAll ==
  /\ IsSome(MIN_DATE)
  /\ \A i \in 1..Len(instaPosts) : IsUndated(instaPosts[i]) \/ BeforeMin(instaPosts[i])

\* C9: a post that gets past the date filters has a check-date within the
\* bounds; an undated post or a post before MIN_DATE is skipped without ending
\* the run; with MIN_DATE after all posts' dates importedPosts stays 0.
C9_OnlyInBoundsPostsImported ==
  /\ (pc \in {"process", "video", "upload", "recheck", "delay", "create", "count", "log"} =>
        InBounds(instaPosts[idx]))
  /\ ((pc = "aborted" /\ abortCause = "post") =>
        ~(IsUndated(instaPosts[idx]) \/ BeforeMin(instaPosts[idx])))
  /\ (MinDateAfterAll => importedPosts = 0)

\* C10: in simulate mode no client operation is called, none is in flight, no
\* delay is taken and no embed carries an upload reference; the post at the
\* submission step is counted at once and its mediaCount is then added to
\* importedMedia.
C10_SimulateCountsOffline ==
  [][SIMULATE =>
       /\ calls' = NoCalls
       /\ inFlight' = {}
       /\ delays' = 0
       /\ (embeddedMedia'.video # None => Val(embeddedMedia'.video).ref = None)
       /\ (pc = "count" => importedPosts' = importedPosts + 1)
       /\ (pc = "log" => importedMedia' = importedMedia + result.mediaCount)]_vars

\* C11: in live mode a createPost call is made only after the 3000 ms delay of
\* the same post has elapsed (one delay per call), at most one client call is
\* in flight, and no call is in flight while the loop evaluates or processes a
\* post: the next post starts only after the submission has settled.
C11_RateLimitedSequential ==
  /\ Cardinality(inFlight) <= 1
  /\ delays = API_RATE_LIMIT_DELAY * calls.createPost
  /\ (pc = "create" <=> inFlight = {"createPost"})
  /\ (pc = "create" => delayed /\ ~SIMULATE)
  /\ (delayed => pc \in {"create", "log", "aborted"})
  /\ (pc \in {"read", "sort", "loop", "process", "video", "recheck", "delay", "count",
               "log", "summary", "done"} => inFlight = {})
  /\ calls.createPost + calls.uploadVideo <= 2 * idx

\* a second createPost call is in flight, after two delays
C11_Witness ==
  /\ ~SIMULATE
  /\ pc = "create"
  /\ idx = 2
  /\ calls.createPost = 2
  /\ delays = 2 * API_RATE_LIMIT_DELAY

\* C12: in live mode login is called once and has succeeded before the archive
\* is read or a post evaluated; when login fails the run is over with no post
\* read, no uploadVideo or createPost call and both counters at 0.
C12_LoginOnceBeforeAnyPost ==
  /\ calls.login = (IF ~SIMULATE /\ pc # "start" THEN 1 ELSE 0)
  /\ (pc \in {"start", "login"} => instaPosts = <<>> /\ idx = 0)
  /\ ((~SIMULATE /\ pc \notin {"start", "login"} /\ abortCause # "login") =>
        bluesky = Some([loggedIn |-> TRUE]))
  /\ (abortCause = "login" =>
        /\ pc = "aborted"
        /\ instaPosts = <<>> /\ idx = 0
        /\ calls.uploadVideo = 0 /\ calls.createPost = 0
        /\ importedPosts = 0 /\ importedMedia = 0)

\* a live run that logged in once and imported a post
C12_Witness ==
  /\ ~SIMULATE
  /\ pc = "done"
  /\ calls.login = 1
  /\ importedPosts > 0

\* the step taken is a failure of the video path: processVideoPost threw
VideoPathFails ==
  \/ pc = "video" /\ pc' \notin {"upload", "recheck"}
  \/ pc = "upload" /\ pc' # "recheck"

\* C13: a failure of the video path (bytes absent, metadata, upload throwing
\* or returning no reference) skips the post: no createPost call, both counters
\* as they were when the post began, and the loop is at the next post; absent
\* bytes always fail, and a video post that goes on to the submission carries
\* the video embed built from its bytes, with the upload reference in live mode.
C13_VideoFailureSkipsPost ==
  /\ [][(VideoPathFails \/ (pc = "video" /\ CurrentPost.media[1].buffer = None)) =>
          /\ pc' = "loop"
          /\ idx' = idx + 1
          /\ importedPosts' = before.posts
          /\ importedMedia' = before.media
          /\ calls'.createPost = calls.createPost
          /\ inFlight' = {}]_vars
  /\ []((pc \in {"recheck", "delay", "create", "count", "log"}
           /\ CurrentPost.media[1].type = "Video") =>
          /\ ~embeddedMedia.isArray
          /\ CurrentPost.media[1].buffer # None
          /\ Val(embeddedMedia.video).buffer = Val(CurrentPost.media[1].buffer)
          /\ (Val(embeddedMedia.video).ref # None <=> ~SIMULATE))

\* the first post was a video whose upload was called and failed: the loop is
\* at the second post with nothing submitted or counted
C13_Witness ==
  /\ ~SIMULATE
  /\ pc = "loop"
  /\ idx = 2
  /\ Len(instaPosts[1].media) > 0
  /\ instaPosts[1].media[1].type = "Video"
  /\ calls.uploadVideo = 1
  /\ calls.createPost = 0
  /\ importedPosts = 0 /\ importedMedia = 0

\* ------------------------------------------------------------------------
\* Properties of processPost, processMedia and processImageBuffer on their own
\* ------------------------------------------------------------------------

\* the first media item is a video file that can be read and is at most 100 MiB
FirstIsReadableVideo(post) ==
  /\ FirstIsVideoFile(post)
  /\ post.media[1].file.readable
  /\ post.media[1].file.len <= VIDEO_MAX_SIZE

\* C14: for a post whose first media item is a readable video file of at most
\* 100 MiB, whatever its size in that range, processPost returns one video
\* embed (not a list) with the file's original bytes and MIME type, and
\* mediaCount 1.
C14_ReadableVideoEmbedded ==
  (ppDone /\ FirstIsReadableVideo(ppPost)) =>
     /\ ~ppResult.thrown
     /\ ~ppResult.embeddedMedia.isArray
     /\ ppResult.embeddedMedia.video # None
     /\ Val(ppResult.embeddedMedia.video).buffer =
          [file |-> ppPost.media[1].uri, len |-> ppPost.media[1].file.len,
           resized |-> FALSE]
     /\ Val(ppResult.embeddedMedia.video).mimeType =
          getVideoMimeType(ppPost.media[1].uri.ext)
     /\ ppResult.mediaCount = 1

\* processMedia returned a usable media item
MediaProcessed == pmDone /\ ~pmResult.thrown /\ pmResult.mediaBuffer # None

\* C15: every caption produced by processMedia has at most 100 characters: a
\* derived text (title plus geo suffix) longer than 100 characters is cut and
\* ends with the ellipsis marker, a text of at most 100 characters is unchanged.
C15_CaptionAtMost100 ==
  (pmDone /\ ~pmResult.thrown) =>
     /\ Len(pmResult.mediaText) <= 100
     /\ MediaProcessed =>
          IF Len(rawMediaText(pmMedia)) > 100
          THEN /\ EndsWithEllipsis(pmResult.mediaText)
               /\ \A i \in 1..(Len(pmResult.mediaText) - 3) :
                     pmResult.mediaText[i] = rawMediaText(pmMedia)[i]
          ELSE pmResult.mediaText = rawMediaText(pmMedia)

\* C16: for a buffer of at most 976,000 bytes processImageBuffer resolves to
\* the same buffer, without calling sharp on it.
C16_SmallBufferUnchanged ==
  (ibDone /\ ibInput.mediaBuffer.len <= 976000) =>
     /\ ~ibResult.thrown
     /\ ibResult.value = Some(ibInput.mediaBuffer)
     /\ ibResult.metadataCalls = 0
     /\ ibResult.resizePasses = 0

\* a buffer of exactly 976,000 bytes came back as it was
C16_Witness ==
  /\ ibDone
  /\ ibInput.mediaBuffer.len = 976000
  /\ ibResult.value = Some(ibInput.mediaBuffer)

\* C17: for a buffer of more than 976,000 bytes processImageBuffer resolves,
\* after at most one resize pass, to a buffer of at most 976,000 bytes or to
\* null, and never rejects; missing dimensions, a metadata error and a
\* re-encode error give null.
C17_LargeBufferResizedOrRejected ==
  (ibDone /\ ibInput.mediaBuffer.len > 976000) =>
     /\ ~ibResult.thrown
     /\ ibResult.resizePasses <= 1
     /\ (ibResult.value # None => Val(ibResult.value).len <= 976000)
     /\ (ibInput.sharp.kind \in {"metaThrows", "noDims", "resizeThrows", "remetaThrows"} =>
           ibResult.value = None)
     /\ (ibInput.sharp.kind = "ok" /\ ibInput.sharp.outLen > 976000 =>
           ibResult.value = None)

\* a buffer over the limit came back re-encoded to exactly the limit
C17_Witness ==
  /\ ibDone
  /\ ibInput.mediaBuffer.len > 976000
  /\ ibResult.value # None
  /\ Val(ibResult.value).resized
  /\ Val(ibResult.value).len = 976000
  /\ ibResult.resizePasses = 1

\* ------------------------------------------------------------------------
\* Properties of the summary estimate (checked under SpecEstimate)
\* ------------------------------------------------------------------------

\* "0 hours and 1 minutes"
ZeroHoursOneMinute ==
  <<"0", " ", "h", "o", "u", "r", "s", " ", "a", "n", "d", " ", "1", " ", "m", "i", "n",
    "u", "t", "e", "s">>

\* total is m * 3000 / 60000 * 1.1 = m * 55 / 1000 rounded to the nearest
\* integer, halves up
IsRoundedEstimate(total, m) ==
  1000 * total - 500 <= 55 * m /\ 55 * m < 1000 * total + 500

Sorted == idx >= 1

HasFirstMediaTimestamp(post) ==
  Len(post.media) > 0 /\ IsSome(post.media[1].creation_timestamp)

\* C19: after the sort the posts stand in ascending order of their first media
\* item's timestamp, and posts with equal first-media timestamps stand in
\* their order in the archive file.
C19_SortedByFirstMediaTimestamp ==
  Sorted =>
    \A i, k \in 1..Len(instaPosts) :
      (i < k /\ HasFirstMediaTimestamp(instaPosts[i])
             /\ HasFirstMediaTimestamp(instaPosts[k])) =>
         LET ti == Val(instaPosts[i].media[1].creation_timestamp)
             tk == Val(instaPosts[k].media[1].creation_timestamp)
         IN ti < tk \/ (ti = tk /\ instaPosts[i].id < instaPosts[k].id)

\* ------------------------------------------------------------------------
\* The image list of processPost (checked under SpecPost)
\* ------------------------------------------------------------------------

\* the first four media items of a post
FirstFour(post) ==
  SubSeq(post.media, 1, IF Len(post.media) < 4 THEN Len(post.media) ELSE 4)

\* the embeds of those of the first four media items that qualify, in order
ExpectedImages(post) ==
  LET sel == SelectSeq(FirstFour(post), Qualifies)
  IN [j \in 1..Len(sel) |-> EmbedOf(sel[j])]

\* C20: for a post whose first media item is not a video the image list is
\* made of exactly those of the first 4 media items that are readable, of a
\* supported image type and within the image constraints, in archive order;
\* no entry lacks a MIME type or bytes or has a video type.
C20_ImageListIsUsableFirstFour ==
  (Returned /\ Len(ppPost.media) > 0 /\ ~FirstIsVideoFile(ppPost)) =>
     /\ ppResult.embeddedMedia.isArray
     /\ ppResult.embeddedMedia.items = ExpectedImages(ppPost)
     /\ ppResult.mediaCount = Len(ExpectedImages(ppPost))
     /\ \A j \in 1..Len(ppResult.embeddedMedia.items) :
          LET e == ppResult.embeddedMedia.items[j] IN
          /\ e.mimeType \in {"image/jpeg", "image/png", "image/webp", "image/heic"}
          /\ e.image.len <= API_LIMIT_IMAGE_UPLOAD_SIZE

\* an unusable first item and a video among the first four are left out and
\* the two usable images around them are embedded
C20_Witness ==
  /\ Returned
  /\ Len(ppPost.media) = 4
  /\ ~FirstIsVideoFile(ppPost)
  /\ ~Qualifies(ppPost.media[1])
  /\ Qualifies(ppPost.media[2])
  /\ getVideoMimeType(ppPost.media[3].uri.ext) # ""
  /\ Qualifies(ppPost.media[4])
  /\ ppResult.embeddedMedia.items = <<EmbedOf(ppPost.media[2]), EmbedOf(ppPost.media[4])>>

\* ------------------------------------------------------------------------
\* The media counter and the embed submitted (checked under Spec)
\* ------------------------------------------------------------------------

\* the number of media items an embed holds
EmbedSize(embed) == IF embed.isArray THEN Len(embed.items) ELSE 1

\* the step that ends the iteration of a post that was published or simulated
CountsSubmittedPost ==
  /\ pc = "log"
  /\ pc' = "loop"
  /\ SIMULATE \/ createStatus = "created"

\* C21: for a post that was published or simulated, the amount added to
\* importedMedia is the number of media items of the embed handed to
\* createPost (or simulated): the length of the image list, 1 for a video
\* embed, 0 for an empty embed, also when the video path replaced the embed.
C21_MediaCountMatchesEmbed ==
  [][CountsSubmittedPost =>
       importedMedia' - importedMedia = EmbedSize(embeddedMedia)]_vars

====
